---- MODULE Spec2Model ----
(***************************************************************************)
(* A model of qparser (github.com/0x16F/qparser): the query-token parser   *)
(* parseQuery, the reflective extraction ParseStruct, and the Options      *)
(* builder (AddField, Apply).                                              *)
(*                                                                         *)
(* Go strings are modelled as sequences of one-character strings, so that  *)
(* strings.Split, strings.Join, strings.ContainsAny and fmt.Sprintf are    *)
(* computed character by character, as the library computes them.          *)
(* Go errors are modelled by their message; NoErr stands for a nil error.  *)
(***************************************************************************)
EXTENDS Integers, Sequences, FiniteSets, TLC

VARIABLES
    opt,    \* the *Options the caller holds (isNil after a failed ParseStruct)
    tx,     \* the transaction returned by the last Apply (NewTx before it)
    call    \* the last ParseStruct / AddField / parseQuery call (its inputs and
            \* results), and whether Apply was called since

vars == <<opt, tx, call>>

(***************************************************************************)
(* Bounds of the model.                                                    *)
(***************************************************************************)
MaxEntries == 2     \* AddField is offered while the Options hold fewer entries
MaxFields == 2      \* number of declared fields of a record given to ParseStruct
MaxQueryLen == 4    \* length of the free-form raw tokens given to parseQuery

(***************************************************************************)
(* The string library, as far as the program uses it.                      *)
(***************************************************************************)
\* whether sep occurs in s at index i
MatchAt(s, sep, i) ==
    /\ i + Len(sep) - 1 <= Len(s)
    /\ SubSeq(s, i, i + Len(sep) - 1) = sep

RECURSIVE SplitFrom(_, _, _, _)
SplitFrom(s, sep, i, cur) ==
    IF i > Len(s) THEN <<cur>>
    ELSE IF MatchAt(s, sep, i) THEN <<cur>> \o SplitFrom(s, sep, i + Len(sep), <<>>)
    ELSE SplitFrom(s, sep, i + 1, Append(cur, s[i]))

\* strings.Split(s, sep) for a non-empty sep: the substrings between the
\* successive (leftmost, non-overlapping) occurrences of sep
Split(s, sep) == SplitFrom(s, sep, 1, <<>>)

RECURSIVE Join(_, _)
\* strings.Join(parts, sep)
Join(parts, sep) ==
    IF Len(parts) = 0 THEN <<>>
    ELSE IF Len(parts) = 1 THEN parts[1]
    ELSE parts[1] \o sep \o Join(Tail(parts), sep)

\* strings.ContainsAny(s, chars)
ContainsAny(s, chars) == \E i \in 1..Len(s) : s[i] \in chars

DigitChars == <<"0", "1", "2", "3", "4", "5", "6", "7", "8", "9">>

RECURSIVE UItoa(_)
UItoa(n) ==
    IF n < 10 THEN <<DigitChars[n + 1]>>
    ELSE UItoa(n \div 10) \o <<DigitChars[(n % 10) + 1]>>

\* fmt.Sprint of an int
Itoa(n) == IF n < 0 THEN <<"-">> \o UItoa(-n) ELSE UItoa(n)

\* fmt.Sprint of a bool
FormatBool(b) == IF b THEN <<"t", "r", "u", "e">> ELSE <<"f", "a", "l", "s", "e">>

(***************************************************************************)
(* Operator codes and SQL operator symbols.                                *)
(***************************************************************************)
operatorEqual == <<"e", "q">>
operatorNotEqual == <<"n", "e", "q">>
operatorGreaterThan == <<"g", "t">>
operatorGreaterThanEqual == <<"g", "t", "e">>
operatorLowerThan == <<"l", "t">>
operatorLowerThanEqual == <<"l", "t", "e">>
operatorLike == <<"l", "i", "k", "e">>
operatorRange == <<"r", "n", "g">>

sqlOperatorEqual == <<"=">>
sqlOperatorNotEqual == <<"<", ">">>
sqlOperatorGreaterThan == <<">">>
sqlOperatorGreaterThanEqual == <<">", "=">>
sqlOperatorLowerThan == <<"<">>
sqlOperatorLowerThanEqual == <<"<", "=">>
sqlOperatorLike == <<"I", "L", "I", "K", "E">>
sqlOperatorRange == <<"B", "E", "T", "W", "E", "E", "N">>

NoErr == "nil"
ErrBadQuery == "bad query, use operator:value"
ErrBadOperator == "bad operator"
ErrParseLimit == "failed to parse limit"
ErrNegativeLimit == "limit must be greater than 0"
ErrParseOffset == "failed to parse offset"
ErrNegativeOffset == "offset must be greater than 0"
ErrRange == "invalid usage of operator rng. rng:value1:to:value2"

\* the zero Field, standing for the nil *Field returned beside an error
NilField == [Name |-> <<>>, Value |-> <<>>, Operator |-> <<>>]

\* validateOperator: nil for the eight SQL operators, an error otherwise
validateOperator(operator) ==
    IF operator \in {sqlOperatorEqual, sqlOperatorNotEqual, sqlOperatorGreaterThan,
                     sqlOperatorGreaterThanEqual, sqlOperatorLowerThan,
                     sqlOperatorLowerThanEqual, sqlOperatorLike, sqlOperatorRange}
    THEN NoErr
    ELSE ErrBadOperator

\* convertOperator: the SQL operator of an operator code
convertOperator(operator) ==
    CASE operator = operatorEqual -> [op |-> sqlOperatorEqual, err |-> NoErr]
      [] operator = operatorNotEqual -> [op |-> sqlOperatorNotEqual, err |-> NoErr]
      [] operator = operatorGreaterThan -> [op |-> sqlOperatorGreaterThan, err |-> NoErr]
      [] operator = operatorGreaterThanEqual ->
            [op |-> sqlOperatorGreaterThanEqual, err |-> NoErr]
      [] operator = operatorLowerThan -> [op |-> sqlOperatorLowerThan, err |-> NoErr]
      [] operator = operatorLowerThanEqual ->
            [op |-> sqlOperatorLowerThanEqual, err |-> NoErr]
      [] operator = operatorLike -> [op |-> sqlOperatorLike, err |-> NoErr]
      [] operator = operatorRange -> [op |-> sqlOperatorRange, err |-> NoErr]
      [] OTHER -> [op |-> <<>>, err |-> ErrBadOperator]

(***************************************************************************)
(* parseQuery                                                              *)
(***************************************************************************)
\* OperatorIsPhrase with the check left out (a faulty variant)
OperatorIsPhraseNever(operator) == FALSE

\* len(strings.Split(args[0], " ")) > 1
OperatorIsPhrase(operator) == Len(Split(operator, <<" ">>)) > 1

\* QueryValue joining with the colon instead (a faulty variant)
QueryValueColons(args) == Join(Tail(args), <<":">>)

\* strings.Join(args[1:], " ")
QueryValue(args) == Join(Tail(args), <<" ">>)

parseQuery(name, query) ==
    LET args == Split(query, <<":">>)
    IN  IF Len(args) < 2 THEN [field |-> NilField, err |-> ErrBadQuery]
        ELSE IF OperatorIsPhrase(args[1]) THEN [field |-> NilField, err |-> ErrBadQuery]
        ELSE LET c == convertOperator(args[1])
             IN  IF c.err # NoErr THEN [field |-> NilField, err |-> c.err]
                 ELSE [field |-> [Name |-> name, Value |-> QueryValue(args),
                                  Operator |-> c.op],
                       err |-> NoErr]

(***************************************************************************)
(* Options: AddField and Apply                                             *)
(***************************************************************************)
\* &Options{limit: 0, offset: 0, fields: make([]*Field, 0)}
EmptyOptions == [isNil |-> FALSE, limit |-> 0, offset |-> 0, fields |-> <<>>]

\* the nil *Options returned beside an error
NilOptions == [isNil |-> TRUE, limit |-> 0, offset |-> 0, fields |-> <<>>]

\* LikeValue without the wrapping (a faulty variant)
LikeValueUnwrapped(value, operator) == value

\* the wildcard wrapping of a Like value: fmt.Sprintf("%%%s%%", value)
LikeValue(value, operator) ==
    IF operator = sqlOperatorLike /\ ~ContainsAny(value, {"%"})
    THEN <<"%">> \o value \o <<"%">>
    ELSE value

\* AppendField putting the new entry first (a faulty variant)
AppendFieldFirst(fields, f) == <<f>> \o fields

\* o.fields = append(o.fields, &Field{...})
AppendField(fields, f) == Append(fields, f)

\* Options.AddField: the Options after the call, and the error returned
AddField(o, name, value, operator) ==
    IF validateOperator(operator) # NoErr THEN [o |-> o, err |-> ErrBadOperator]
    ELSE LET v == LikeValue(value, operator)
         IN  IF operator = sqlOperatorRange
             THEN LET args == Split(v, <<" ", "t", "o", " ">>)
                  IN  IF Len(args) # 2 THEN [o |-> o, err |-> ErrRange]
                      ELSE [o |-> [o EXCEPT !.fields =
                                      AppendField(@, [Name |-> name,
                                                      Value |-> args[1] \o <<" ">> \o args[2],
                                                      Operator |-> operator])],
                            err |-> NoErr]
             ELSE [o |-> [o EXCEPT !.fields =
                             AppendField(@, [Name |-> name, Value |-> v,
                                             Operator |-> operator])],
                   err |-> NoErr]

\* a transaction no condition, offset or limit was set on
NewTx == [conds |-> <<>>, offsetSet |-> FALSE, offset |-> 0,
          limitSet |-> FALSE, limit |-> 0, panicked |-> FALSE]

\* LimitApplies also applying a limit of zero (a faulty variant)
LimitAppliesToZero(limit) == limit >= 0

\* if o.limit > 0
LimitApplies(limit) == limit > 0

RECURSIVE ApplyFields(_, _, _)
\* the loop of Apply over o.fields from index i: one Where per entry; an index
\* out of range (args[1] of a stored range value without a space) panics
ApplyFields(fields, i, t) ==
    IF i > Len(fields) THEN t
    ELSE LET option == fields[i]
         IN  IF option.Operator = sqlOperatorRange
             THEN LET args == Split(option.Value, <<" ">>)
                  IN  IF Len(args) < 2 THEN [t EXCEPT !.panicked = TRUE]
                      ELSE ApplyFields(fields, i + 1,
                             [t EXCEPT !.conds = Append(@,
                                [query |-> option.Name \o <<" ">> \o option.Operator
                                              \o <<" ", "?", " ", "A", "N", "D", " ", "?">>,
                                 args |-> <<args[1], args[2]>>])])
             ELSE ApplyFields(fields, i + 1,
                    [t EXCEPT !.conds = Append(@,
                       [query |-> option.Name \o <<" ">> \o option.Operator \o <<" ", "?">>,
                        args |-> <<option.Value>>])])

\* Options.Apply: the transaction returned (Where, Offset and Limit of the
\* query builder add a condition, set the offset and set the limit)
Apply(o, t) ==
    LET t1 == ApplyFields(o.fields, 1, t)
        t2 == [t1 EXCEPT !.offsetSet = TRUE, !.offset = o.offset]
        t3 == IF LimitApplies(o.limit)
              THEN [t2 EXCEPT !.limitSet = TRUE, !.limit = o.limit]
              ELSE t2
    IN  IF t1.panicked THEN t1
        ELSE [t3 EXCEPT !.offsetSet = TRUE, !.offset = o.offset]

(***************************************************************************)
(* ParseStruct                                                             *)
(*                                                                         *)
(* The data given to ParseStruct is [kind, fields]: kind is the reflect    *)
(* kind of the value ("struct", or "ptr" for a pointer to a struct), and   *)
(* fields are the declared fields, each with its query tag, its declared   *)
(* type, whether it is exported, whether it is a nil pointer, and its      *)
(* value (s, b or i by the type).                                          *)
(***************************************************************************)
tagLimit == <<"l", "i", "m", "i", "t">>
tagOffset == <<"o", "f", "f", "s", "e", "t">>

IsPtr(f) == f.type \in {"*string", "*bool", "*int"}

\* the dynamic type of reflect.Indirect(value).Interface()
BaseType(f) ==
    CASE f.type \in {"string", "*string"} -> "string"
      [] f.type \in {"bool", "*bool"} -> "bool"
      [] OTHER -> "int"

\* fmt.Sprint(fieldValue)
Sprint(f) ==
    CASE BaseType(f) = "string" -> f.s
      [] BaseType(f) = "bool" -> FormatBool(f.b)
      [] OTHER -> Itoa(f.i)

Failed(e) == [opt |-> NilOptions, err |-> e, panicked |-> FALSE]

\* a panic leaves ParseStruct without returning
Panicked == [opt |-> NilOptions, err |-> NoErr, panicked |-> TRUE]

RECURSIVE ParseFields(_, _, _)
\* the loop of ParseStruct over the declared fields from index i
ParseFields(fs, i, o) ==
    IF i > Len(fs) THEN [opt |-> o, err |-> NoErr, panicked |-> FALSE]
    ELSE LET f == fs[i]
         IN  IF IsPtr(f) /\ f.isNil THEN ParseFields(fs, i + 1, o)
             \* Value.Interface panics on a value obtained from an unexported field
             ELSE IF ~f.exported THEN Panicked
             ELSE IF f.tag = tagLimit
                  THEN IF BaseType(f) # "int" THEN Failed(ErrParseLimit)
                       ELSE IF f.i < 0 THEN Failed(ErrNegativeLimit)
                       ELSE ParseFields(fs, i + 1, [o EXCEPT !.limit = f.i])
             ELSE IF f.tag = tagOffset
                  THEN IF BaseType(f) # "int" THEN Failed(ErrParseOffset)
                       ELSE IF f.i < 0 THEN Failed(ErrNegativeOffset)
                       ELSE ParseFields(fs, i + 1, [o EXCEPT !.offset = f.i])
             ELSE IF f.type = "*bool"
                  THEN LET r == AddField(o, f.tag, Sprint(f), operatorEqual)
                       IN  IF r.err # NoErr THEN Failed(r.err)
                           ELSE ParseFields(fs, i + 1, r.o)
             ELSE LET fieldValueStr == Sprint(f)
                  IN  IF Len(fieldValueStr) = 0 THEN ParseFields(fs, i + 1, o)
                      ELSE LET q == parseQuery(f.tag, fieldValueStr)
                           IN  IF q.err # NoErr THEN Failed(q.err)
                               ELSE LET r == AddField(o, q.field.Name, q.field.Value,
                                                      q.field.Operator)
                                    IN  IF r.err # NoErr THEN Failed(r.err)
                                        ELSE ParseFields(fs, i + 1, r.o)

\* ParseStruct: Type.NumField panics unless the value is a struct
ParseStruct(data) ==
    IF data.kind # "struct" THEN Panicked
    ELSE ParseFields(data.fields, 1, EmptyOptions)

(***************************************************************************)
(* The inputs the operations are tried on.                                 *)
(***************************************************************************)
\* all strings over the characters chars of length at most n
Strs(chars, n) == UNION {[1..k -> chars] : k \in 0..n}

tagAge == <<"a", "g", "e">>
tagName == <<"n", "a", "m", "e">>
tagActive == <<"a", "c", "t", "i", "v", "e">>
NoTag == <<>>

ToSep == <<" ", "t", "o", " ">>

\* names, values and operators given to AddField by a caller
AddNames == {tagAge}
AddValues ==
    { <<"3", "0">>,                         \* 30
      <<"J", "%">>,                         \* J%
      <<"1">> \o ToSep \o <<"5">>,          \* 1 to 5
      ToSep \o <<"5">>,                     \*  to 5
      <<"1", " ", "2">> \o ToSep \o <<"5">>,          \* 1 2 to 5
      <<"1">> \o ToSep \o <<"3">> \o ToSep \o <<"5">> \* 1 to 3 to 5
    }
SqlOperators ==
    {sqlOperatorEqual, sqlOperatorNotEqual, sqlOperatorGreaterThan,
     sqlOperatorGreaterThanEqual, sqlOperatorLowerThan, sqlOperatorLowerThanEqual,
     sqlOperatorLike, sqlOperatorRange}
AddOperators == SqlOperators \cup {operatorEqual}

\* a declared field of a record
FieldOf(tag, type, exported, isNil, s, b, i) ==
    [tag |-> tag, type |-> type, exported |-> exported, isNil |-> isNil,
     s |-> s, b |-> b, i |-> i]
StringField(tag, s) == FieldOf(tag, "string", TRUE, FALSE, s, FALSE, 0)
IntField(tag, i) == FieldOf(tag, "int", TRUE, FALSE, <<>>, FALSE, i)

FieldDecls ==
    { StringField(tagAge, operatorGreaterThan \o <<":", "3", "0">>),      \* gt:30
      StringField(tagAge, operatorRange \o <<":", "1">> \o ToSep \o <<"5">>), \* rng:1 to 5
      StringField(tagAge, <<"3", "0">>),                                  \* 30
      StringField(tagAge, <<>>),
      StringField(tagName, operatorLike \o <<":", "J">>),                 \* like:J
      StringField(tagName, operatorEqual \o <<":", "1", "0", ":", "3", "0">>), \* eq:10:30
      StringField(NoTag, operatorEqual \o <<":", "1">>),                  \* eq:1
      StringField(NoTag, <<"J">>),
      StringField(NoTag, <<>>),
      StringField(tagLimit, <<"1", "0">>),
      FieldOf(tagAge, "string", FALSE, FALSE,
              operatorGreaterThan \o <<":", "3", "0">>, FALSE, 0),        \* unexported
      FieldOf(tagAge, "*string", TRUE, TRUE, <<>>, FALSE, 0),             \* nil *string
      FieldOf(tagName, "*string", TRUE, FALSE,
              operatorNotEqual \o <<":", "J">>, FALSE, 0),                \* neq:J
      FieldOf(tagActive, "bool", TRUE, FALSE, <<>>, TRUE, 0),
      FieldOf(tagActive, "*bool", TRUE, FALSE, <<>>, TRUE, 0),
      FieldOf(tagActive, "*bool", TRUE, FALSE, <<>>, FALSE, 0),
      FieldOf(tagActive, "*bool", TRUE, TRUE, <<>>, FALSE, 0),            \* nil *bool
      IntField(tagLimit, 10),
      IntField(tagLimit, 0),
      IntField(tagLimit, -1),
      IntField(tagOffset, 5),
      IntField(tagOffset, -1),
      FieldOf(tagLimit, "*int", TRUE, TRUE, <<>>, FALSE, 0),              \* nil *int
      IntField(tagAge, 30),
      IntField(NoTag, 0)
    }

\* the values given to ParseStruct: a record, or a pointer to one
Records ==
    [kind : {"struct", "ptr"},
     fields : UNION {[1..k -> FieldDecls] : k \in 0..MaxFields}]

OperatorCodes ==
    {operatorEqual, operatorNotEqual, operatorGreaterThan, operatorGreaterThanEqual,
     operatorLowerThan, operatorLowerThanEqual, operatorLike, operatorRange}

\* the raw tokens given to parseQuery: every short string over a few
\* characters, and every operator code followed by a colon and a short value
RawQueries ==
    Strs({"e", "q", ":", " ", "\t", "\n"}, MaxQueryLen)
    \cup {code \o <<":">> \o rest :
            code \in OperatorCodes, rest \in Strs({"a", ":", " "}, MaxQueryLen - 1)}

(***************************************************************************)
(* The state machine.                                                      *)
(***************************************************************************)
NoCall ==
    [op |-> "none", data |-> [kind |-> "struct", fields |-> <<>>],
     name |-> <<>>, value |-> <<>>, operator |-> <<>>,
     err |-> NoErr, panicked |-> FALSE, pre |-> EmptyOptions,
     field |-> NilField, applied |-> FALSE]

Init ==
    /\ opt = EmptyOptions
    /\ tx = NewTx
    /\ call = NoCall

\* options, err := ParseStruct(data): the construction of the Options of a request
DoParseStruct ==
    /\ call.op = "none"
    /\ \E data \in Records :
        LET r == ParseStruct(data)
        IN  /\ opt' = r.opt
            /\ tx' = NewTx
            /\ call' = [NoCall EXCEPT !.op = "ParseStruct", !.data = data,
                                      !.err = r.err, !.panicked = r.panicked]

\* err := options.AddField(name, value, operator)
DoAddField ==
    /\ ~opt.isNil
    /\ Len(opt.fields) < MaxEntries
    /\ \E name \in AddNames, value \in AddValues, operator \in AddOperators :
        LET r == AddField(opt, name, value, operator)
        IN  /\ opt' = r.o
            /\ tx' = NewTx
            /\ call' = [NoCall EXCEPT !.op = "AddField", !.name = name,
                                      !.value = value, !.operator = operator,
                                      !.err = r.err, !.pre = opt]

\* tx := options.Apply(db), on a fresh transaction
DoApply ==
    /\ ~opt.isNil
    /\ tx' = Apply(opt, NewTx)
    /\ call' = [call EXCEPT !.applied = TRUE]
    /\ UNCHANGED opt

\* field, err := parseQuery(name, query)
DoParseQuery ==
    /\ call.op = "none"
    /\ \E name \in {tagAge}, query \in RawQueries :
        LET r == parseQuery(name, query)
        IN  /\ call' = [NoCall EXCEPT !.op = "parseQuery", !.name = name,
                                      !.value = query, !.err = r.err,
                                      !.field = r.field]
            /\ UNCHANGED <<opt, tx>>

Next == DoParseStruct \/ DoAddField \/ DoApply

Spec == Init /\ [][Next]_vars

NextQuery == DoParseQuery

SpecQuery == Init /\ [][NextQuery]_vars

(***************************************************************************)
(* What the claims speak of, stated apart from the operators above.        *)
(***************************************************************************)
HasChar(s, c) == \E i \in 1..Len(s) : s[i] = c

\* the index of the first colon of q (0 without one)
FirstColon(q) ==
    IF HasChar(q, ":")
    THEN CHOOSE i \in 1..Len(q) : q[i] = ":" /\ \A j \in 1..(i - 1) : q[j] # ":"
    ELSE 0

\* the text before the first colon (the whole token without one)
OpSegment(q) == IF FirstColon(q) = 0 THEN q ELSE SubSeq(q, 1, FirstColon(q) - 1)

\* the text after the first colon
Rest(q) == SubSeq(q, FirstColon(q) + 1, Len(q))

ColonsToSpaces(s) == [i \in 1..Len(s) |-> IF s[i] = ":" THEN " " ELSE s[i]]

SymbolTable ==
    { <<operatorEqual, sqlOperatorEqual>>,
      <<operatorNotEqual, sqlOperatorNotEqual>>,
      <<operatorGreaterThan, sqlOperatorGreaterThan>>,
      <<operatorGreaterThanEqual, sqlOperatorGreaterThanEqual>>,
      <<operatorLowerThan, sqlOperatorLowerThan>>,
      <<operatorLowerThanEqual, sqlOperatorLowerThanEqual>>,
      <<operatorLike, sqlOperatorLike>>,
      <<operatorRange, sqlOperatorRange>> }

LastField == opt.fields[Len(opt.fields)]

\* the places of the separator " to " in v
SepPlaces(v) == {i \in 1..Len(v) : MatchAt(v, ToSep, i)}
SepPlace(v) == CHOOSE i \in SepPlaces(v) : TRUE
LowerBound(v) == SubSeq(v, 1, SepPlace(v) - 1)
UpperBound(v) == SubSeq(v, SepPlace(v) + Len(ToSep), Len(v))

IsBooleanField(f) ==
    /\ BaseType(f) = "bool"
    /\ ~f.isNil
    /\ f.exported
    /\ f.tag \notin {tagLimit, tagOffset}

\* a field ParseStruct is to make an entry of
Contributes(f) ==
    /\ ~(IsPtr(f) /\ f.isNil)
    /\ f.tag \notin {tagLimit, tagOffset}
    /\ Len(Sprint(f)) > 0

Tagged(f) == f.tag # NoTag

(***************************************************************************)
(* C1: a boolean field (bool or non-nil *bool) with a non-reserved tag n   *)
(* and value b makes ParseStruct add the entry {n, "=", string of b}, and  *)
(* never makes it fail: a record of such fields only is parsed without     *)
(* error. (The code fails on every such field.)                            *)
(***************************************************************************)
C1_BooleanFieldsBecomeEqualEntries ==
    (/\ call.op = "ParseStruct"
     /\ call.data.kind = "struct"
     /\ Len(call.data.fields) > 0
     /\ \A i \in 1..Len(call.data.fields) : IsBooleanField(call.data.fields[i]))
    => /\ call.err = NoErr
       /\ ~call.panicked
       /\ \A i \in 1..Len(call.data.fields) :
            \E j \in 1..Len(opt.fields) :
                opt.fields[j] = [Name |-> call.data.fields[i].tag,
                                 Value |-> FormatBool(call.data.fields[i].b),
                                 Operator |-> sqlOperatorEqual]

(***************************************************************************)
(* C2, as claimed: for a token op:rest with a recognized op, parseQuery    *)
(* returns the value rest exactly, colons kept. (Violated.)                *)
(***************************************************************************)
C2_ValueIsRestColonsKept ==
    (/\ call.op = "parseQuery"
     /\ HasChar(call.value, ":")
     /\ OpSegment(call.value) \in OperatorCodes)
    => /\ call.err = NoErr
       /\ call.field.Value = Rest(call.value)
       /\ <<OpSegment(call.value), call.field.Operator>> \in SymbolTable

(***************************************************************************)
(* C2, amended: for a token op:rest with a recognized op, parseQuery       *)
(* succeeds, names the entry after the field, gives it the operator the    *)
(* symbol table has for op, and the value rest with every colon replaced   *)
(* by one space.                                                           *)
(***************************************************************************)
C2_ValueIsRestColonsAsSpaces ==
    (/\ call.op = "parseQuery"
     /\ HasChar(call.value, ":")
     /\ OpSegment(call.value) \in OperatorCodes)
    => /\ call.err = NoErr
       /\ call.field.Name = call.name
       /\ call.field.Value = ColonsToSpaces(Rest(call.value))
       /\ <<OpSegment(call.value), call.field.Operator>> \in SymbolTable

\* C2's case: a recognized operator and a value that holds a colon was parsed
C2_Witness ==
    /\ call.op = "parseQuery"
    /\ OpSegment(call.value) \in OperatorCodes
    /\ HasChar(call.value, ":")
    /\ HasChar(Rest(call.value), ":")
    /\ call.err = NoErr

(***************************************************************************)
(* C3: for a range value "A to B" with exactly one separator and non-empty *)
(* A and B (spaces allowed in them), AddField succeeds and a later Apply   *)
(* binds "<name> BETWEEN ? AND ?" to exactly (A, B). (The code loses A and *)
(* B when either holds a space.)                                           *)
(***************************************************************************)
C3_RangeRoundTrip ==
    (/\ call.op = "AddField"
     /\ call.operator = sqlOperatorRange
     /\ Cardinality(SepPlaces(call.value)) = 1
     /\ LowerBound(call.value) # <<>>
     /\ UpperBound(call.value) # <<>>)
    => /\ call.err = NoErr
       /\ call.applied =>
            /\ ~tx.panicked
            /\ Len(tx.conds) = Len(opt.fields)
            /\ tx.conds[Len(tx.conds)] =
                 [query |-> call.name \o <<" ">> \o sqlOperatorRange
                               \o <<" ", "?", " ", "A", "N", "D", " ", "?">>,
                  args |-> <<LowerBound(call.value), UpperBound(call.value)>>]

(***************************************************************************)
(* C4: AddField with the Range operator fails with the range error and     *)
(* appends nothing for every value that does not split on " to " into      *)
(* exactly two non-empty parts. (The code accepts an empty part.)          *)
(***************************************************************************)
C4_BadRangeRejected ==
    (/\ call.op = "AddField"
     /\ call.operator = sqlOperatorRange
     /\ LET parts == Split(call.value, ToSep)
        IN  ~(Len(parts) = 2 /\ parts[1] # <<>> /\ parts[2] # <<>>))
    => /\ call.err = ErrRange
       /\ opt = call.pre

(***************************************************************************)
(* C5: ParseStruct, given a record or a pointer to one, returns either     *)
(* Options and no error or an error and no Options, and never panics.      *)
(* (The code panics on a pointer and on an unexported field.)              *)
(***************************************************************************)
C5_ParseStructNeverPanics ==
    call.op = "ParseStruct"
    => /\ ~call.panicked
       /\ (call.err = NoErr) <=> ~opt.isNil

(***************************************************************************)
(* C6: a field without a query tag is ignored by ParseStruct: the result   *)
(* is that of the record without its untagged fields. (The code parses an  *)
(* untagged field like any other.)                                         *)
(***************************************************************************)
C6_UntaggedFieldsIgnored ==
    (/\ call.op = "ParseStruct"
     /\ call.data.kind = "struct"
     /\ \A i \in 1..Len(call.data.fields) : call.data.fields[i].exported)
    => LET r == ParseStruct([call.data EXCEPT !.fields = SelectSeq(@, Tagged)])
       IN  /\ call.err = r.err
           /\ opt = r.opt

(***************************************************************************)
(* C7, as claimed: parseQuery fails with the malformed-query error for     *)
(* every token without a colon and every token whose operator segment      *)
(* holds a whitespace character (space, tab, newline), and with the        *)
(* unknown-operator error exactly for the other tokens whose operator code *)
(* is not recognized. (Violated.)                                          *)
(***************************************************************************)
C7_WhitespaceIsMalformed ==
    call.op = "parseQuery"
    => LET malformed == \/ ~HasChar(call.value, ":")
                        \/ ContainsAny(OpSegment(call.value), {" ", "\t", "\n"})
       IN  /\ malformed => call.err = ErrBadQuery
           /\ (call.err = ErrBadOperator)
                <=> (~malformed /\ OpSegment(call.value) \notin OperatorCodes)

(***************************************************************************)
(* C7, amended: parseQuery fails with the malformed-query error for every  *)
(* token without a colon and every token whose operator segment holds a    *)
(* space character, and with the unknown-operator error exactly for the    *)
(* other tokens whose operator code is not recognized (a tab or a newline  *)
(* in the operator segment makes an unknown operator).                     *)
(***************************************************************************)
C7_SpaceIsMalformed ==
    call.op = "parseQuery"
    => LET malformed == \/ ~HasChar(call.value, ":")
                        \/ HasChar(OpSegment(call.value), " ")
       IN  /\ malformed => call.err = ErrBadQuery
           /\ (call.err = ErrBadOperator)
                <=> (~malformed /\ OpSegment(call.value) \notin OperatorCodes)

\* C7's case: a token with a colon and a space in its operator segment was refused
C7_Witness ==
    /\ call.op = "parseQuery"
    /\ HasChar(call.value, ":")
    /\ HasChar(OpSegment(call.value), " ")
    /\ call.err = ErrBadQuery

(***************************************************************************)
(* C8: after Apply the transaction's offset is set and equals the          *)
(* Options' offset (also when 0, and not accumulated), its limit is set    *)
(* exactly when the Options' limit is > 0 and then equals it, and Options  *)
(* without entries add no condition.                                       *)
(***************************************************************************)
C8_OffsetAlwaysLimitWhenPositive ==
    call.applied
    => /\ tx.offsetSet
       /\ tx.offset = opt.offset
       /\ tx.limitSet <=> opt.limit > 0
       /\ tx.limitSet => tx.limit = opt.limit
       /\ Len(opt.fields) = 0 => tx.conds = <<>>

\* C8's case: Options with no entry, limit 0 and offset 5 were applied
C8_Witness ==
    /\ call.applied
    /\ opt.fields = <<>>
    /\ opt.limit = 0
    /\ opt.offset = 5
    /\ tx.offset = 5
    /\ ~tx.limitSet

(***************************************************************************)
(* C9: every Like entry of the Options has a value with a "%"; AddField    *)
(* stores "%" v "%" for a Like value v without "%", v itself for one with  *)
(* "%", and never wraps the value of another operator.                     *)
(***************************************************************************)
C9_LikeValuesHaveWildcard ==
    /\ \A i \in 1..Len(opt.fields) :
          opt.fields[i].Operator = sqlOperatorLike => HasChar(opt.fields[i].Value, "%")
    /\ (call.op = "AddField" /\ call.err = NoErr)
       => /\ call.operator = sqlOperatorLike
             => LastField.Value = IF HasChar(call.value, "%") THEN call.value
                                  ELSE <<"%">> \o call.value \o <<"%">>
          /\ call.operator \notin {sqlOperatorLike, sqlOperatorRange}
             => LastField.Value = call.value
          /\ call.operator = sqlOperatorRange
             => (HasChar(LastField.Value, "%") <=> HasChar(call.value, "%"))

\* C9's case: a Like value without a wildcard was added
C9_Witness ==
    /\ call.op = "AddField"
    /\ call.operator = sqlOperatorLike
    /\ ~HasChar(call.value, "%")
    /\ call.err = NoErr
    /\ LastField.Value = <<"%">> \o call.value \o <<"%">>

(***************************************************************************)
(* C10: the entries are the successfully added fields in the order they    *)
(* were added: a successful AddField appends its entry after the entries   *)
(* there were, a failed one changes nothing; after ParseStruct the entries *)
(* are those of the contributing fields in declaration order; and Apply    *)
(* attaches one condition per entry, in entry order.                       *)
(***************************************************************************)
C10_EntriesInInsertionOrder ==
    /\ call.op = "AddField"
       => IF call.err = NoErr
          THEN /\ Len(opt.fields) = Len(call.pre.fields) + 1
               /\ SubSeq(opt.fields, 1, Len(call.pre.fields)) = call.pre.fields
               /\ LastField.Name = call.name
               /\ LastField.Operator = call.operator
               /\ opt.limit = call.pre.limit
               /\ opt.offset = call.pre.offset
          ELSE opt = call.pre
    /\ (call.op = "ParseStruct" /\ call.err = NoErr /\ ~call.panicked)
       => LET made == SelectSeq(call.data.fields, Contributes)
          IN  /\ Len(opt.fields) = Len(made)
              /\ \A i \in 1..Len(made) :
                    /\ opt.fields[i].Name = made[i].tag
                    /\ <<OpSegment(Sprint(made[i])), opt.fields[i].Operator>> \in SymbolTable
    /\ call.applied
       => /\ ~tx.panicked
          /\ Len(tx.conds) = Len(opt.fields)
          /\ \A i \in 1..Len(opt.fields) :
                IF opt.fields[i].Operator = sqlOperatorRange
                THEN /\ tx.conds[i].query =
                          opt.fields[i].Name \o <<" ">> \o sqlOperatorRange
                              \o <<" ", "?", " ", "A", "N", "D", " ", "?">>
                     /\ Len(tx.conds[i].args) = 2
                ELSE tx.conds[i] =
                        [query |-> opt.fields[i].Name \o <<" ">>
                                      \o opt.fields[i].Operator \o <<" ", "?">>,
                         args |-> <<opt.fields[i].Value>>]

\* C10's case: a record with two entry-making fields was parsed and applied
C10_Witness ==
    /\ call.op = "ParseStruct"
    /\ call.applied
    /\ Len(opt.fields) = 2
    /\ opt.fields[1].Name = tagName
    /\ opt.fields[2].Name = tagAge
    /\ Len(tx.conds) = 2

====
